---- MODULE Spec2Model ----
(***************************************************************************)
(* Multipart upload session manager of the file uploader.                  *)
(*                                                                         *)
(* The model follows routes/upload.js (the HTTP handlers and the           *)
(* route-level registry), utils/storageAdapter.js (the adapter registry,   *)
(* the chunk buffers and both storage backends) and utils/database.js      *)
(* (the files table).  A handler is one action up to its first await on    *)
(* real I/O; the continuation after each such await is a further action,   *)
(* so that the interleavings Node's event loop allows are the              *)
(* interleavings of the model.                                             *)
(*                                                                         *)
(* Two further parts stand beside the router: the start of the process in  *)
(* server.js (initDatabase, then app.listen) and the page public/upload.js *)
(* (currentUpload and the calls of startUpload), which sees the API        *)
(* through its answers.                                                    *)
(*                                                                         *)
(* Sizes are counted in an abstract unit; payloads are sequences of bytes. *)
(***************************************************************************)
EXTENDS Integers, Sequences, FiniteSets, TLC

\* ------------------------------------------------------------------ bounds
MaxSessions == 2        \* uuids the generator hands out (uploadId = fileId index)
MaxPart     == 2        \* part numbers 1..MaxPart
MaxManifest == 2        \* longest manifest a client sends
MaxInflight == 2        \* handlers that may be suspended at an await at once

\* --------------------------------------------------------------- constants
\* upload.js:34  maxFileSize = 30 * 1024 * 1024 * 1024 bytes.  The unit of
\* the model is 1 MiB, so that the ceiling fits a machine integer; a byte of
\* a model payload stands for one unit.
maxFileSize == 30 * 1024

Ids         == 1..MaxSessions
PartNumbers == 1..MaxPart
\* What parseInt makes of the partNumber field of a form: a part number, or
\* a negative number when the field is "-1".
PartKeys    == {-1} \cup PartNumbers
Slots       == 1..MaxInflight

\* Payloads a client sends, by index; 0 stands for "no entry in the Map".
Payloads == 1..2
Bytes(p) == IF p = 1 THEN <<"h", "e", "l">> ELSE IF p = 2 THEN <<"l", "o">> ELSE <<>>

\* The ETag S3 returns for an uploaded part identifies its payload.
ETagOf(p) == p

\* Request inputs.  Missing stands for an absent / falsy field.
Missing   == 0
FileSizes == {-1, 0, 5, maxFileSize, maxFileSize + 1}

VARIABLES
  STORAGE_TYPE,           \* storageAdapter: "local" or "cloud", fixed at load
  BUCKET_NAME,            \* storageAdapter: TRUE when S3_BUCKET_NAME is set
  overlap,                \* routes a client calls while a request is pending
  sessions,               \* number of uploads the clients start, and ids they name
  sizes,                  \* the file sizes the clients declare
  fields,                 \* the partNumber fields the clients send with a chunk
  names,                  \* the file names the clients give
  uuid,                   \* number of uuid pairs generated so far
  routeMultipartUploads,  \* upload.js: const multipartUploads = new Map()
  multipartUploads,       \* storageAdapter: const multipartUploads = new Map()
  tempChunks,             \* uploadInfo.tempChunks of each session object
  disk,                   \* STORAGE_DIR/<fileId>/<fileName>
  s3Uploads,              \* the bucket's open multipart uploads
  s3Objects,              \* the bucket's objects
  files,                  \* database: table files
  inflight,               \* handlers suspended at an await
  resp,                   \* the response sent in the latest step, if any
  abortedOK,              \* history: sessions whose abort was answered 200
  db,                     \* database.js: the handle and its files table
  listening,              \* server.js: app.listen was called and holds the port
  exitCode,               \* status of process.exit, NoExit while running
  currentUpload,          \* public/upload.js: let currentUpload
  runs,                   \* each call of startUpload: where it is suspended
  aborted,                \* the AbortControllers whose abort() was called
  uploadBtn,              \* the upload button is shown and enabled
  cancelBtn,              \* the cancel button is shown
  service                 \* what the API made of each session the page started

vars == <<STORAGE_TYPE, BUCKET_NAME, overlap, sessions, sizes, fields, names, uuid, routeMultipartUploads,
          multipartUploads, tempChunks, disk, s3Uploads, s3Objects,
          files, inflight, resp, abortedOK, db, listening, exitCode,
          currentUpload, runs, aborted, uploadBtn, cancelBtn, service>>

config     == <<STORAGE_TYPE, BUCKET_NAME, overlap, sessions, sizes, fields,
                 names>>
\* The process: what server.js brought up before the first request.
process    == <<db, listening, exitCode>>
\* The page public/upload.js runs in, and the sessions it started.
browser    == <<currentUpload, runs, aborted, uploadBtn, cancelBtn, service>>

\* The ids a client names in a request.
Known       == 1..sessions
StartInputs == {<<fn, fs>> : fn \in names, fs \in sizes} \cup {<<"", maxFileSize>>}
PartInputs  == (Known \X PartNumbers) \cup {<<Missing, 1>>, <<1, Missing>>}
ChunkInputs == (Known \X fields \X Payloads)
                 \cup {<<Missing, 1, 1>>, <<1, Missing, 1>>, <<1, 1, Missing>>}
registries == <<routeMultipartUploads, multipartUploads>>
storage    == <<disk, s3Uploads, s3Objects>>
\* The server's own state: registries, buffers, storage and metadata.
server     == <<routeMultipartUploads, multipartUploads, tempChunks,
                disk, s3Uploads, s3Objects, files>>

\* ------------------------------------------------------------ value shapes
NoUpload  == [present |-> FALSE, fileId |-> 0, fileName |-> "", fileSize |-> 0]
NoChunks  == [n \in PartKeys |-> 0]
\* A session's directory: absent, empty, holding a destination that one
\* write stream is filling ("open"), that several write streams opened at
\* once ("mixed"), that a destroyed write stream ("destroyed") or a write
\* error ("failed") left behind, or the finished destination file
\* ("final").  Only the bytes of a finished file are kept.
NoDir     == [dir |-> FALSE, file |-> "none", content |-> <<>>]
\* disk keeps the session directories STORAGE_DIR/<fileId> at their fileId
\* and the storage root itself, with the file a session put right into it,
\* at STORAGE_DIR.
STORAGE_DIR == 0
Dirs      == {STORAGE_DIR} \cup Ids
\* File names: one without a path, and one that leaves the session directory.
Plain     == "f.bin"
Traversal == "../x"
\* path.dirname(path.join(STORAGE_DIR, fileId, fileName)): the session's own
\* directory, or the storage root for `../x`.
DirName(info) == IF info.fileName = Traversal THEN STORAGE_DIR ELSE info.fileId
EmptyDir  == [dir |-> TRUE, file |-> "none", content |-> <<>>]
Destroyed == [dir |-> TRUE, file |-> "destroyed", content |-> <<>>]
Failed    == [dir |-> TRUE, file |-> "failed", content |-> <<>>]
Open      == [dir |-> TRUE, file |-> "open", content |-> <<>>]
Mixed     == [dir |-> TRUE, file |-> "mixed", content |-> <<>>]
Final(b)  == [dir |-> TRUE, file |-> "final", content |-> b]
\* fs.mkdir(dir, {recursive: true}) of directory i: it and the root exist
\* afterwards.
MakeDir(d, i) ==
  [j \in Dirs |-> IF j \in {i, STORAGE_DIR} /\ ~d[j].dir THEN EmptyDir ELSE d[j]]
\* fs.rmdir(dir, {recursive: true}) of directory i: it goes with all it
\* holds, which for the root is every session directory.
RemoveDir(d, i) ==
  [j \in Dirs |-> IF j = i \/ i = STORAGE_DIR THEN NoDir ELSE d[j]]
NoS3      == [open |-> FALSE, parts |-> NoChunks]
NoObject  == [present |-> FALSE, parts |-> <<>>]
\* The storage key `uploads/${fileId}/${fileName}` of an upload on cloud, its
\* filePath path.join(STORAGE_DIR, fileId, fileName) on local.
NoKey     == <<"", 0, "">>
Key(info) == <<IF STORAGE_TYPE = "cloud" THEN "uploads/" ELSE "STORAGE_DIR/",
               info.fileId, info.fileName>>
\* A download URL: signed for a key with a lifetime in seconds, or the path
\* `/api/download/file/${id}` of the direct download.
NoUrl     == [signed |-> FALSE, key |-> NoKey, expiresIn |-> 0]
DirectUrl(id) ==
  [signed |-> FALSE, key |-> <<"/api/download/file/", id, "">>, expiresIn |-> 0]
\* The lifetimes the routes ask for: seven days at completion, one hour at
\* every later request.
CompletionExpiry == 7 * 24 * 3600
DownloadExpiry   == 3600
\* The lifetime of a URL for the upload of one part.
UploadExpiry     == 3600
NoFile    == [present |-> FALSE, fileName |-> "", fileSize |-> 0, key |-> NoKey,
              url |-> NoUrl]

\* A manifest entry {partNumber, etag}; etag 0 when the client sends none.
Part(n, e) == [partNumber |-> n, etag |-> e]

\* req.body (and req.file) of a request; array: parts is a non-empty value
\* for which Array.isArray holds.
Request(op, id, pn, d, ps, arr, fn, fs) ==
  [op |-> op, uploadId |-> id, partNumber |-> pn, data |-> d,
   parts |-> ps, array |-> arr, fileName |-> fn, fileSize |-> fs]

NoReq  == Request("none", 0, 0, 0, <<>>, FALSE, "", 0)

\* The frame of a suspended handler: its request, the uploadInfo object it
\* holds, the sorted parts still to write and the bytes written so far.
\* seen is the session's part map as the handler found it; retry tells
\* that the handler found the remains of a destroyed write stream, that is
\* of a completion that missed a part, at the destination.  url is the
\* downloadUrl the handler holds.
Idle   == [pc |-> "idle", req |-> NoReq, uploadId |-> 0, info |-> NoUpload,
           rest |-> <<>>, buf |-> <<>>, seen |-> NoChunks, retry |-> FALSE,
           url |-> NoUrl]

\* res.status(s).json({error, message}); part is the part number the body
\* names; seen and retry are taken from the handler's frame c, and so are
\* body, the bytes the handler wrote or streams, length, the fileSize of
\* the session or files row it holds, and url, the download or part URL
\* the handler made.  req is the
\* request answered; of a request rejected with 400 or 404 the route, the
\* session and the size it names are kept, and of its other fields only
\* whether they were given.
Response(r, s, e, m, pn, c) ==
  [op |-> r.op, status |-> s, error |-> e, message |-> m, part |-> pn,
   uploadId |-> r.uploadId, seen |-> c.seen, retry |-> c.retry,
   body |-> c.buf, length |-> c.info.fileSize, url |-> c.url,
   req |-> IF s \in {400, 404}
           THEN [r EXCEPT !.partNumber = IF @ = Missing THEN Missing ELSE 1,
                          !.data = IF @ = Missing THEN Missing ELSE 1,
                          !.parts = <<>>]
           ELSE r]

NoResp == Response(NoReq, 0, "", "", 0, Idle)

\* ----------------------------------------------------------------- helpers
\* uuidv4(): a value no earlier call returned.
uuidv4 == uuid + 1

\* An insertion that puts the entry first whatever its part number.
InsertPartFront(x, s) == <<x>> \o s

\* Array.prototype.sort((a, b) => a.partNumber - b.partNumber): stable.
RECURSIVE InsertPart(_, _)
InsertPart(x, s) ==
  IF s = <<>> THEN <<x>>
  ELSE IF x.partNumber < Head(s).partNumber THEN <<x>> \o s
  ELSE <<Head(s)>> \o InsertPart(x, Tail(s))

\* SortParts without the sort: the manifest in the order it was sent.
SortNoop(s) == s

RECURSIVE SortParts(_)
SortParts(s) ==
  IF s = <<>> THEN <<>>
  ELSE InsertPart(s[Len(s)], SortParts(SubSeq(s, 1, Len(s) - 1)))

\* multipartUploads.get(uploadId) of a Map that answers for every key.
GetAlways(reg, id) == TRUE

\* multipartUploads.get(uploadId): is there an entry for the key.
MapHas(reg, id) == reg[id].present

\* multipartUploads.delete(uploadId) that leaves the entry in place.
MapDeleteNoop(reg, id) == reg

\* multipartUploads.delete(uploadId)
MapDelete(reg, id) == [reg EXCEPT ![id] = NoUpload]

\* The size check with the ceiling off by one.
ExceedsLimitLax(fs) == fs > maxFileSize + 1

\* upload.js:35  fileSize > maxFileSize
ExceedsLimit(fs) == fs > maxFileSize

\* First free handler frame, 0 when MaxInflight handlers are suspended.
FreeSlot ==
  IF \E k \in Slots : inflight[k].pc = "idle"
  THEN CHOOSE k \in Slots : inflight[k].pc = "idle"
                            /\ \A j \in Slots : inflight[j].pc = "idle" => k <= j
  ELSE 0

AllIdle == \A k \in Slots : inflight[k].pc = "idle"

\* A client may call the route now: while a handler is suspended only the
\* routes in overlap are called.
MayArrive(op) == AllIdle \/ op \in overlap

Suspend(k, rec) == inflight' = [inflight EXCEPT ![k] = rec]
Resume(k)       == inflight' = [inflight EXCEPT ![k] = Idle]

\* ----------------------------------------------- the process and the page
\* exitCode while the process runs.
NoExit == -1

\* CHUNK_SIZE of the page, in the unit of the file sizes.
CHUNK_SIZE == 10

\* Calls of startUpload the page makes; the controller a call creates and
\* the session the API opens for it carry the call's number.
MaxRuns == 2
Runs    == 1..MaxRuns

\* Sizes of the files the user may pick; currentUpload.file before any pick.
ClientFiles == {0, 5, 15}
NoSelection == -1

\* Math.ceil(a / b) for a >= 0, b > 0.
Ceil(a, b) == (a + b - 1) \div b

\* A request the page sent: the route, the uploadId, the part number and
\* the manifest of its body.
Sent(op, id, pn, ps) == [op |-> op, uploadId |-> id, partNumber |-> pn, parts |-> ps]
NoSent == Sent("none", 0, 0, <<>>)

\* A call of startUpload: its const file, its loop index i, the controller
\* whose signal its pending fetch carries (0: none) and that fetch.
NoRun == [pc |-> "none", file |-> NoSelection, i |-> 0, signal |-> 0,
          sent |-> NoSent]

\* The ETag header S3 answers a PUT with, and etag.replace(/"/g, '').
Header(e)  == <<"\"", e, "\"">>
Unquote(h) == h[2]

\* The page as loaded: the initial currentUpload, both buttons as after
\* load (a click on upload without a file returns at once).
InitBrowser ==
  /\ currentUpload = [file |-> NoSelection, uploadId |-> 0, storageType |-> "local",
                      totalChunks |-> 0, uploadedChunks |-> 0, parts |-> <<>>,
                      abortController |-> 0]
  /\ runs = [k \in Runs |-> NoRun]
  /\ aborted = {}
  /\ uploadBtn = FALSE
  /\ cancelBtn = FALSE
  /\ service = [k \in Runs |-> "none"]

\* The process after initDatabase resolved and app.listen was called.
Running ==
  /\ db = "ready"
  /\ listening = TRUE
  /\ exitCode = NoExit

\* ------------------------------------------------------------------- Init
\* The modules as loaded: registries, buffers, storage and metadata.
InitServer(o, n, fs, pf, fns) ==
  /\ STORAGE_TYPE \in {"local", "cloud"}
  /\ BUCKET_NAME \in (IF STORAGE_TYPE = "cloud" THEN BOOLEAN ELSE {FALSE})
  /\ overlap = o
  /\ sessions = n
  /\ sizes = fs
  /\ fields = pf
  /\ names = fns
  /\ uuid = 0
  /\ routeMultipartUploads = [i \in Ids |-> NoUpload]
  /\ multipartUploads = [i \in Ids |-> NoUpload]
  /\ tempChunks = [i \in Ids |-> NoChunks]
  /\ disk = [i \in Dirs |-> IF i = STORAGE_DIR /\ STORAGE_TYPE = "local"
                            THEN EmptyDir ELSE NoDir]
  /\ s3Uploads = [i \in Ids |-> NoS3]
  /\ s3Objects = [i \in Ids |-> NoObject]
  /\ files = [i \in Ids |-> NoFile]
  /\ inflight = [k \in Slots |-> Idle]
  /\ resp = NoResp
  /\ abortedOK = {}

InitWith(o, n, fs, pf, fns) ==
  /\ InitServer(o, n, fs, pf, fns)
  /\ Running
  /\ InitBrowser

Init == InitWith({}, 1, FileSizes, PartNumbers, {Plain})

\* --------------------------------------------------- POST /api/upload/start
\* upload.js router.post('/start') up to the await inside
\* startMultipartUpload (fs.mkdir or s3Client.send).
StartUpload(fn, fs) ==
  LET r == Request("start", 0, 0, 0, <<>>, FALSE, fn, fs) IN
  /\ MayArrive("start")
  /\ UNCHANGED <<process, browser, abortedOK, config, server>>
  /\ IF fn = "" \/ fs = Missing
     THEN /\ resp' = Response(r, 400, "fileName and fileSize are required", "", 0, Idle)
          /\ UNCHANGED <<uuid, inflight>>
     ELSE IF ExceedsLimit(fs)
     THEN /\ resp' = Response(r, 400, "File size exceeds 30GB limit", "", 0, Idle)
          /\ UNCHANGED <<uuid, inflight>>
     ELSE /\ uuid < sessions
          /\ uuid' = uuid + 1
          /\ IF STORAGE_TYPE = "cloud" /\ ~BUCKET_NAME
             THEN /\ resp' = Response(r, 500, "Failed to start upload",
                                      "S3_BUCKET_NAME is required for cloud storage",
                                      0, Idle)
                  /\ UNCHANGED inflight
             ELSE /\ FreeSlot # 0
                  /\ Suspend(FreeSlot,
                             [Idle EXCEPT !.pc = "start_backend", !.req = r,
                                          !.uploadId = uuidv4,
                                          !.info = [present |-> TRUE, fileId |-> uuidv4,
                                                    fileName |-> fn, fileSize |-> fs]])
                  /\ resp' = NoResp

\* startMultipartUpload with the adapter's registry entry written before
\* the backend call is awaited.
StartBackendDoneEager(k, ok) ==
  LET c == inflight[k]
      r == [c.req EXCEPT !.uploadId = c.uploadId]
  IN
  /\ c.pc = "start_backend"
  /\ Resume(k)
  /\ UNCHANGED <<process, browser, abortedOK, config, uuid, tempChunks, s3Objects, files>>
  /\ multipartUploads' = [multipartUploads EXCEPT ![c.uploadId] = c.info]
  /\ IF ok
     THEN /\ IF STORAGE_TYPE = "cloud"
             THEN /\ s3Uploads' = [s3Uploads EXCEPT ![c.uploadId] =
                                     [open |-> TRUE, parts |-> NoChunks]]
                  /\ UNCHANGED disk
             ELSE /\ disk' = MakeDir(disk, DirName(c.info))
                  /\ UNCHANGED s3Uploads
          /\ routeMultipartUploads' =
               [routeMultipartUploads EXCEPT ![c.uploadId] = c.info]
          /\ resp' = Response(r, 200, "", "", 0, Idle)
     ELSE /\ resp' = Response(r, 500, "Failed to start upload", "backend", 0, Idle)
          /\ UNCHANGED <<routeMultipartUploads, disk, s3Uploads>>

\* The backend answered (ok) or failed: the rest of startMultipartUpload
\* and of the route handler.
StartBackendDone(k, ok) ==
  LET c == inflight[k]
      r == [c.req EXCEPT !.uploadId = c.uploadId]
  IN
  /\ c.pc = "start_backend"
  /\ Resume(k)
  /\ UNCHANGED <<process, browser, abortedOK, config, uuid, tempChunks, s3Objects, files>>
  /\ IF ok
     THEN /\ IF STORAGE_TYPE = "cloud"
             THEN /\ s3Uploads' = [s3Uploads EXCEPT ![c.uploadId] =
                                     [open |-> TRUE, parts |-> NoChunks]]
                  /\ UNCHANGED disk
             ELSE /\ disk' = MakeDir(disk, DirName(c.info))
                  /\ UNCHANGED s3Uploads
          /\ multipartUploads' = [multipartUploads EXCEPT ![c.uploadId] = c.info]
          /\ routeMultipartUploads' =
               [routeMultipartUploads EXCEPT ![c.uploadId] = c.info]
          /\ resp' = Response(r, 200, "", "", 0, Idle)
     ELSE /\ resp' = Response(r, 500, "Failed to start upload", "backend", 0, Idle)
          /\ UNCHANGED <<routeMultipartUploads, multipartUploads, disk, s3Uploads>>

\* ---------------------------------------------------- POST /api/upload/part
\* getUploadPartUrl: getSignedUrl of an UploadPartCommand for the key and
\* the S3 upload of the session; the part number it is signed for is the
\* response's part.
getUploadPartUrl(info) ==
  [signed |-> TRUE, key |-> Key(info), expiresIn |-> UploadExpiry]

\* The responses of a handler of /part that signs a URL whatever the
\* backend is.
PartUrlAnyBackend(id, pn, signed) ==
  LET r == Request("part", id, pn, 0, <<>>, FALSE, "", 0) IN
  IF id = Missing \/ pn = Missing
  THEN Response(r, 400, "uploadId and partNumber are required", "", 0, Idle)
  ELSE IF ~MapHas(routeMultipartUploads, id)
  THEN Response(r, 404, "Upload session not found", "", 0, Idle)
  ELSE IF ~MapHas(multipartUploads, id)
  THEN Response(r, 500, "Failed to get upload part URL",
                "Upload session not found", 0, Idle)
  ELSE IF signed
  THEN Response(r, 200, "", "", pn,
                [Idle EXCEPT !.url = getUploadPartUrl(multipartUploads[id])])
  ELSE Response(r, 500, "Failed to get upload part URL", "backend", 0, Idle)

\* upload.js router.post('/part') with getUploadPartUrl.  The handler reads
\* no shared state after its await on getSignedUrl, so it is one action;
\* signed tells whether the signing succeeded.
PartUrlResponse(id, pn, signed) ==
  LET r == Request("part", id, pn, 0, <<>>, FALSE, "", 0) IN
  IF id = Missing \/ pn = Missing
  THEN Response(r, 400, "uploadId and partNumber are required", "", 0, Idle)
  ELSE IF ~MapHas(routeMultipartUploads, id)
  THEN Response(r, 404, "Upload session not found", "", 0, Idle)
  ELSE IF STORAGE_TYPE # "cloud"
  THEN Response(r, 400, "Use POST /api/upload/chunk for local storage",
                "", 0, Idle)
  ELSE IF ~MapHas(multipartUploads, id)
  THEN Response(r, 500, "Failed to get upload part URL",
                "Upload session not found", 0, Idle)
  ELSE IF signed
  THEN Response(r, 200, "", "", pn,
                [Idle EXCEPT !.url = getUploadPartUrl(multipartUploads[id])])
  ELSE Response(r, 500, "Failed to get upload part URL", "backend", 0, Idle)

\* A handler that books the part as received when it issues the URL.
PartUrlRecording(id, pn, signed) ==
  /\ MayArrive("part")
  /\ UNCHANGED <<process, browser, abortedOK, config, uuid, routeMultipartUploads, multipartUploads,
                 tempChunks, disk, s3Objects, files, inflight>>
  /\ resp' = PartUrlResponse(id, pn, signed)
  /\ s3Uploads' = IF resp'.status = 200
                  THEN [s3Uploads EXCEPT ![id].parts[pn] = ETagOf(1)]
                  ELSE s3Uploads

PartUrl(id, pn, signed) ==
  /\ MayArrive("part")
  /\ UNCHANGED <<process, browser, abortedOK, config, uuid, server, inflight>>
  /\ resp' = PartUrlResponse(id, pn, signed)

\* The client PUTs a part to a presigned URL; S3 stores it under the part
\* number the URL was signed for and answers with the part's ETag.  The
\* URLs stay valid for an hour and are not tracked: a client may hold one
\* for every part of an open upload.
S3PutPart(id, pn, d) ==
  /\ MayArrive("put")
  /\ STORAGE_TYPE = "cloud"
  /\ s3Uploads[id].open
  /\ s3Uploads' = [s3Uploads EXCEPT ![id].parts[pn] = ETagOf(d)]
  /\ resp' = NoResp
  /\ UNCHANGED <<process, browser, abortedOK, config, uuid, routeMultipartUploads, multipartUploads,
                 tempChunks, disk, s3Objects, files, inflight>>

\* --------------------------------------------------- POST /api/upload/chunk
\* A Map.set that keeps an entry already present.
SetFirstOnly(chunks, pn, d) ==
  IF chunks[pn] = 0 THEN [chunks EXCEPT ![pn] = d] ELSE chunks

\* storageAdapter uploadChunk: uploadInfo.tempChunks.set(partNumber, chunkData)
MapSet(chunks, pn, d) == [chunks EXCEPT ![pn] = d]

\* A handler of /chunk that stores the chunk before it looks the session
\* up in the route's registry.
ChunkStoreFirst(id, pn, d) ==
  LET r == Request("chunk", id, pn, d, <<>>, FALSE, "", 0)
      given == STORAGE_TYPE = "local" /\ id # Missing /\ pn # Missing /\ d # Missing
  IN
  /\ MayArrive("chunk")
  /\ UNCHANGED <<process, browser, abortedOK, config, uuid, routeMultipartUploads, multipartUploads, storage,
                 files, inflight>>
  /\ tempChunks' = IF given THEN [tempChunks EXCEPT ![id] = MapSet(@, pn, d)]
                   ELSE tempChunks
  /\ resp' =
       IF STORAGE_TYPE # "local"
       THEN Response(r, 400, "Direct chunk uploads only available for local storage",
                     "", 0, Idle)
       ELSE IF id = Missing \/ pn = Missing
       THEN Response(r, 400, "uploadId and partNumber are required", "", 0, Idle)
       ELSE IF d = Missing
       THEN Response(r, 400, "Chunk data is required", "", 0, Idle)
       ELSE IF ~MapHas(routeMultipartUploads, id)
       THEN Response(r, 404, "Upload session not found", "", 0, Idle)
       ELSE IF ~MapHas(multipartUploads, id)
       THEN Response(r, 500, "Failed to upload chunk", "Upload session not found",
                     0, Idle)
       ELSE Response(r, 200, "", "", pn, [Idle EXCEPT !.seen = tempChunks[id]])

\* upload.js router.post('/chunk'); d = Missing when the form has no file.
Chunk(id, pn, d) ==
  LET r == Request("chunk", id, pn, d, <<>>, FALSE, "", 0) IN
  /\ MayArrive("chunk")
  /\ UNCHANGED <<process, browser, abortedOK, config, uuid, routeMultipartUploads, multipartUploads, storage,
                 files, inflight>>
  /\ IF STORAGE_TYPE # "local"
     THEN /\ resp' = Response(r, 400,
                              "Direct chunk uploads only available for local storage",
                              "", 0, Idle)
          /\ UNCHANGED tempChunks
     ELSE IF id = Missing \/ pn = Missing
     THEN /\ resp' = Response(r, 400, "uploadId and partNumber are required", "", 0, Idle)
          /\ UNCHANGED tempChunks
     ELSE IF d = Missing
     THEN /\ resp' = Response(r, 400, "Chunk data is required", "", 0, Idle)
          /\ UNCHANGED tempChunks
     ELSE IF ~MapHas(routeMultipartUploads, id)
     THEN /\ resp' = Response(r, 404, "Upload session not found", "", 0, Idle)
          /\ UNCHANGED tempChunks
     ELSE IF ~MapHas(multipartUploads, id)
     THEN /\ resp' = Response(r, 500, "Failed to upload chunk",
                              "Upload session not found", 0, Idle)
          /\ UNCHANGED tempChunks
     ELSE /\ tempChunks' = [tempChunks EXCEPT ![id] = MapSet(@, pn, d)]
          /\ resp' = Response(r, 200, "", "", pn, [Idle EXCEPT !.seen = tempChunks[id]])

\* ------------------------------------------------ POST /api/upload/complete
\* Manifests a client may send: at most MaxManifest entries.
ManifestEntries ==
  IF STORAGE_TYPE = "cloud"
  THEN {Part(n, e) : n \in PartNumbers, e \in Payloads}
  ELSE {Part(n, 0) : n \in PartNumbers}

Manifests == UNION {[1..n -> ManifestEntries] : n \in 0..MaxManifest}

\* Another handler holds a write stream on the destination of frame c.
Shared(k, c) ==
  \E j \in Slots \ {k} : /\ inflight[j].pc \in {"drain", "finish"}
                         /\ DirName(inflight[j].info) = DirName(c.info)

\* What a write stream of handler k makes of destination d when it ends as
\* to (Open while it writes): nothing when the directory is gone, and an
\* unspecified mix when another stream has the file open too.
Written(d, k, c, to) ==
  IF ~d.dir THEN d
  ELSE IF d.file = "mixed" \/ Shared(k, c) THEN Mixed
  ELSE to

\* The assembly loop without the check for a missing chunk: the part is
\* skipped.
WriteLoopSkipMissing(k, c) ==
  /\ disk' = [disk EXCEPT ![DirName(c.info)] = Written(@, k, c, Open)]
  /\ resp' = NoResp
  /\ IF c.rest = <<>>
     THEN Suspend(k, [c EXCEPT !.pc = "finish"])
     ELSE Suspend(k, [c EXCEPT !.pc = "drain", !.rest = Tail(@),
                               !.buf = @ \o Bytes(tempChunks[c.uploadId]
                                                    [Head(c.rest).partNumber])])

\* The local assembly loop of completeMultipartUpload from the top of one
\* iteration to the next await: the chunk of the next part is looked up and
\* written, and the handler waits for 'drain'; after the last part it calls
\* writeStream.end() and waits for 'finish'.  A missing chunk destroys the
\* stream, which leaves the destination with what was flushed so far.
WriteLoop(k, c) ==
  IF c.rest = <<>>
  THEN /\ Suspend(k, [c EXCEPT !.pc = "finish"])
       /\ resp' = NoResp
       /\ disk' = [disk EXCEPT ![DirName(c.info)] = Written(@, k, c, Open)]
  ELSE LET pn == Head(c.rest).partNumber
           chunkData == tempChunks[c.uploadId][pn]
       IN
       IF chunkData = 0
       THEN /\ inflight' = [inflight EXCEPT ![k] = Idle]
            /\ resp' = Response(c.req, 500, "Failed to complete upload",
                                "Chunk not found", pn, c)
            /\ disk' = [disk EXCEPT ![DirName(c.info)] = Written(@, k, c, Destroyed)]
       ELSE /\ Suspend(k, [c EXCEPT !.pc = "drain", !.rest = Tail(@),
                                    !.buf = @ \o Bytes(chunkData)])
            /\ resp' = NoResp
            /\ disk' = [disk EXCEPT ![DirName(c.info)] = Written(@, k, c, Open)]

\* upload.js router.post('/complete') with completeMultipartUpload, up to the
\* first await: s3Client.send on cloud, 'drain' or 'finish' on local.
Complete(id, ps, arr) ==
  LET r == Request("complete", id, 0, 0, ps, arr, "", 0)
      fail(st, e, m) ==
        /\ resp' = Response(r, st, e, m, 0, Idle)
        /\ UNCHANGED <<inflight, disk>>
  IN
  /\ MayArrive("complete")
  /\ UNCHANGED <<process, browser, abortedOK, config, uuid, routeMultipartUploads, multipartUploads,
                 tempChunks, s3Uploads, s3Objects, files>>
  /\ IF id = Missing \/ ~arr
     THEN fail(400, "uploadId and parts array are required", "")
     ELSE IF ~MapHas(routeMultipartUploads, id)
     THEN fail(404, "Upload session not found", "")
     ELSE IF ~MapHas(multipartUploads, id)
     THEN fail(500, "Failed to complete upload", "Upload session not found")
     ELSE /\ FreeSlot # 0
          /\ LET c == [Idle EXCEPT !.req = r, !.uploadId = id,
                                   !.info = routeMultipartUploads[id],
                                   !.rest = SortParts(ps),
                                   !.seen = tempChunks[id],
                                   !.retry = (disk[DirName(routeMultipartUploads[id])].file
                                                = "destroyed")]
             IN IF STORAGE_TYPE = "cloud"
                THEN /\ Suspend(FreeSlot, [c EXCEPT !.pc = "s3_complete"])
                     /\ resp' = NoResp
                     /\ UNCHANGED disk
                ELSE WriteLoop(FreeSlot, c)

\* 'drain' was emitted (ok): the next iteration of the assembly loop.  Or
\* the stream emitted 'error' while the loop waits for 'drain': the handler
\* has no 'error' listener yet (it attaches one after writeStream.end()), so
\* the event is an uncaught exception and the process exits.  Every Map and
\* every pending handler is lost with it; the destination keeps what was
\* flushed, and storage and database are as they were when the server is
\* started again.
CompleteDrain(k, ok) ==
  /\ inflight[k].pc = "drain"
  /\ UNCHANGED <<process, browser, abortedOK, config, uuid, s3Uploads, s3Objects, files>>
  /\ IF ok
     THEN /\ WriteLoop(k, inflight[k])
          /\ UNCHANGED <<routeMultipartUploads, multipartUploads, tempChunks>>
     ELSE /\ routeMultipartUploads' = [i \in Ids |-> NoUpload]
          /\ multipartUploads' = [i \in Ids |-> NoUpload]
          /\ tempChunks' = [i \in Ids |-> NoChunks]
          /\ inflight' = [j \in Slots |-> Idle]
          /\ disk' = [disk EXCEPT ![DirName(inflight[k].info)] =
                        Written(@, k, inflight[k], Failed)]
          /\ resp' = NoResp

\* 'finish' (ok) or 'error' was emitted.  On finish the adapter clears the
\* chunks and evicts the session, and the route starts saveFileMetadata.
\* The data reaches the destination unless its directory was removed
\* meanwhile (the stream then wrote to an unlinked file) or another stream
\* wrote to the same file.
CompleteFinish(k, ok) ==
  LET c == inflight[k] IN
  /\ c.pc = "finish"
  /\ UNCHANGED <<process, browser, abortedOK, config, uuid, routeMultipartUploads, s3Uploads, s3Objects,
                 files>>
  /\ IF ok
     THEN /\ disk' = [disk EXCEPT ![DirName(c.info)] =
                        Written(@, k, c, Final(c.buf))]
          /\ tempChunks' = [tempChunks EXCEPT ![c.uploadId] = NoChunks]
          /\ multipartUploads' = MapDelete(multipartUploads, c.uploadId)
          /\ Suspend(k, [c EXCEPT !.pc = "save",
                                   !.url = DirectUrl(c.info.fileId)])
          /\ resp' = NoResp
     ELSE /\ disk' = [disk EXCEPT ![DirName(c.info)] = Written(@, k, c, Failed)]
          /\ Resume(k)
          /\ resp' = Response(c.req, 500, "Failed to complete upload", "backend",
                              0, c)
          /\ UNCHANGED <<tempChunks, multipartUploads>>

\* S3's CompleteMultipartUpload: the upload is open, the list is not empty,
\* its part numbers ascend strictly and every entry names an uploaded part
\* with that part's ETag.
S3Accepts(id, parts) ==
  /\ s3Uploads[id].open
  /\ parts # <<>>
  /\ \A i \in 1..Len(parts) - 1 : parts[i].partNumber < parts[i + 1].partNumber
  /\ \A i \in 1..Len(parts) :
       /\ s3Uploads[id].parts[parts[i].partNumber] # 0
       /\ s3Uploads[id].parts[parts[i].partNumber] = parts[i].etag

\* A signer that issues every URL with the lifetime of the completion's.
SignIgnoringExpiry(key, expiresIn) ==
  [signed |-> TRUE, key |-> key, expiresIn |-> CompletionExpiry]

\* getPresignedDownloadUrl: getSignedUrl of a GetObjectCommand for the key.
getPresignedDownloadUrl(key, expiresIn) ==
  [signed |-> TRUE, key |-> key, expiresIn |-> expiresIn]

\* S3 answered the completion call; out is "ok", "s3" (the call failed
\* for a reason of the backend's) or "sign" (getPresignedDownloadUrl threw).
CompleteS3Done(k, out) ==
  LET c == inflight[k] IN
  /\ c.pc = "s3_complete"
  /\ UNCHANGED <<process, browser, abortedOK, config, uuid, routeMultipartUploads, tempChunks, disk, files>>
  /\ IF out # "s3" /\ S3Accepts(c.uploadId, c.rest)
     THEN /\ s3Objects' = [s3Objects EXCEPT ![c.info.fileId] =
                             [present |-> TRUE,
                              parts |-> [i \in 1..Len(c.rest) |-> c.rest[i].etag]]]
          /\ s3Uploads' = [s3Uploads EXCEPT ![c.uploadId] = NoS3]
          /\ multipartUploads' = MapDelete(multipartUploads, c.uploadId)
          /\ IF out = "ok"
             THEN /\ Suspend(k, [c EXCEPT !.pc = "save",
                                           !.url = getPresignedDownloadUrl(
                                                     Key(c.info), CompletionExpiry)])
                  /\ resp' = NoResp
             ELSE /\ Resume(k)
                  /\ resp' = Response(c.req, 500, "Failed to complete upload",
                                      "presign", 0, c)
     ELSE /\ Resume(k)
          /\ resp' = Response(c.req, 500, "Failed to complete upload", "backend",
                              0, c)
          /\ UNCHANGED <<s3Objects, s3Uploads, multipartUploads>>

\* An INSERT that replaces a row with the same id.
PrimaryKeyIgnored(tbl, id) == TRUE

\* files.id is the PRIMARY KEY: INSERT succeeds only when no row has the id.
PrimaryKeyFree(tbl, id) == ~tbl[id].present

\* database.js saveFileMetadata answered: INSERT fails on a row with the
\* same id (PRIMARY KEY) or when the database fails (~ok).
CompleteSave(k, ok) ==
  LET c == inflight[k]
      id == c.info.fileId
  IN
  /\ c.pc = "save"
  /\ Resume(k)
  /\ UNCHANGED <<process, browser, abortedOK, config, uuid, multipartUploads, tempChunks, storage>>
  /\ IF ok /\ PrimaryKeyFree(files, id)
     THEN /\ files' = [files EXCEPT ![id] =
                         [present |-> TRUE, fileName |-> c.info.fileName,
                          fileSize |-> c.info.fileSize,
                          key |-> Key(c.info), url |-> c.url]]
          /\ routeMultipartUploads' =
               MapDelete(routeMultipartUploads, c.uploadId)
          /\ resp' = Response(c.req, 200, "", "", 0, c)
     ELSE /\ resp' = Response(c.req, 500, "Failed to complete upload", "database",
                              0, c)
          /\ UNCHANGED <<files, routeMultipartUploads>>

\* --------------------------------------------------- POST /api/upload/abort
\* upload.js router.post('/abort') with abortMultipartUpload up to its await
\* (s3Client.send or fs.rmdir); the local branch clears the chunks first.
Abort(id) ==
  LET r == Request("abort", id, 0, 0, <<>>, FALSE, "", 0)
      fail(st, e, m) ==
        /\ resp' = Response(r, st, e, m, 0, Idle)
        /\ UNCHANGED <<inflight, tempChunks>>
  IN
  /\ MayArrive("abort")
  /\ UNCHANGED <<process, browser, abortedOK, config, uuid, routeMultipartUploads, multipartUploads, storage,
                 files>>
  /\ IF id = Missing
     THEN fail(400, "uploadId is required", "")
     ELSE IF ~MapHas(routeMultipartUploads, id)
     THEN fail(404, "Upload session not found", "")
     ELSE IF ~MapHas(multipartUploads, id)
     THEN fail(500, "Failed to abort upload", "Upload session not found")
     ELSE /\ FreeSlot # 0
          /\ Suspend(FreeSlot, [Idle EXCEPT !.pc = "abort_backend", !.req = r,
                                            !.uploadId = id,
                                            !.info = multipartUploads[id],
                                            !.seen = tempChunks[id]])
          /\ tempChunks' = IF STORAGE_TYPE = "cloud" THEN tempChunks
                           ELSE [tempChunks EXCEPT ![id] = NoChunks]
          /\ resp' = NoResp

\* The backend answered the discard.  S3 rejects the abort of an upload it
\* does not have; the local branch ignores what rmdir reports.
AbortBackendDone(k, ok) ==
  LET c == inflight[k]
      evict ==
        /\ multipartUploads' = MapDelete(multipartUploads, c.uploadId)
        /\ routeMultipartUploads' =
             MapDelete(routeMultipartUploads, c.uploadId)
        /\ resp' = Response(c.req, 200, "Upload aborted successfully", "", 0, c)
        /\ abortedOK' = abortedOK \cup {c.uploadId}
  IN
  /\ c.pc = "abort_backend"
  /\ Resume(k)
  /\ UNCHANGED <<process, browser, config, uuid, tempChunks, s3Objects, files>>
  /\ IF STORAGE_TYPE = "cloud"
     THEN /\ UNCHANGED disk
          /\ IF ok /\ s3Uploads[c.uploadId].open
             THEN /\ s3Uploads' = [s3Uploads EXCEPT ![c.uploadId] = NoS3]
                  /\ evict
             ELSE /\ resp' = Response(c.req, 500, "Failed to abort upload", "backend",
                                      0, c)
                  /\ UNCHANGED <<s3Uploads, multipartUploads, routeMultipartUploads,
                                 abortedOK>>
     ELSE /\ disk' = IF ok THEN RemoveDir(disk, DirName(c.info)) ELSE disk
          /\ UNCHANGED s3Uploads
          /\ evict

\* ---------------------------------------------------- GET /api/download/*
\* The frame of a download handler holding the files row of id.
FileFrame(id) ==
  [Idle EXCEPT !.info = [present |-> TRUE, fileId |-> id,
                         fileName |-> files[id].fileName,
                         fileSize |-> files[id].fileSize]]

\* A SELECT that finds a row for every id.
HasRowAlways(tbl, id) == TRUE

\* database.js getFileMetadata: row || null.
HasRow(tbl, id) == tbl[id].present

\* A read stream that delivers nothing.
ReadNothing(d) == <<>>

\* fs.createReadStream(filePath).pipe(res): the bytes of the stored file.
ReadFile(d) == d.content

\* download.js router.get('/url'); found: SELECT succeeded, signed:
\* getSignedUrl succeeded.  The handler changes no state and reads the
\* files table once, so it is one action; the body's downloadUrl is the
\* response's url.
DownloadUrl(id, found, signed) ==
  LET r == Request("url", id, 0, 0, <<>>, FALSE, "", 0) IN
  /\ MayArrive("url")
  /\ UNCHANGED <<process, browser, abortedOK, config, uuid, server, inflight>>
  /\ resp' =
       IF id = Missing
       THEN Response(r, 400, "File ID is required", "", 0, Idle)
       ELSE IF ~found
       THEN Response(r, 500, "Failed to get download URL", "database", 0, Idle)
       ELSE IF ~HasRow(files, id)
       THEN Response(r, 404, "File not found", "", 0, Idle)
       ELSE IF STORAGE_TYPE # "cloud"
       THEN Response(r, 200, "", "", 0,
                     [FileFrame(id) EXCEPT !.url = DirectUrl(id)])
       ELSE IF signed
       THEN Response(r, 200, "", "", 0,
                     [FileFrame(id) EXCEPT !.url = getPresignedDownloadUrl(
                                                     files[id].key, DownloadExpiry)])
       ELSE Response(r, 500, "Failed to get download URL", "backend", 0, Idle)

\* download.js router.get('/file/:id') with getFilePath; found: SELECT
\* succeeded.  Content-Length is the row's fileSize (the response's length)
\* and the body is what the read stream delivers.  No other handler runs
\* between its awaits, so it is one action.
DownloadFile(id, found) ==
  LET r == Request("file", id, 0, 0, <<>>, FALSE, "", 0) IN
  /\ MayArrive("file")
  /\ UNCHANGED <<process, browser, abortedOK, config, uuid, server, inflight>>
  /\ resp' =
       IF STORAGE_TYPE = "cloud"
       THEN Response(r, 400, "Direct file downloads not available for cloud storage",
                     "", 0, Idle)
       ELSE IF ~found
       THEN Response(r, 500, "Failed to download file", "database", 0, Idle)
       ELSE IF ~HasRow(files, id)
       THEN Response(r, 404, "File not found", "", 0, Idle)
       ELSE IF ~disk[id].dir
       THEN Response(r, 500, "Failed to download file", "ENOENT", 0, Idle)
       ELSE IF disk[id].file = "none"
       THEN Response(r, 500, "Failed to download file", "File not found", 0, Idle)
       ELSE Response(r, 200, "", "", 0,
                     [FileFrame(id) EXCEPT !.buf = ReadFile(disk[id])])

\* ------------------------------------------------------------------- Next
CompleteInputs == {<<Missing, <<>>, TRUE>>, <<1, <<>>, FALSE>>}
                    \cup {<<id, ps, TRUE>> : id \in Known, ps \in Manifests}
AbortInputs    == {Missing} \cup Known

Next ==
  \/ \E in \in StartInputs : StartUpload(in[1], in[2])
  \/ \E k \in Slots, ok \in BOOLEAN : StartBackendDone(k, ok)
  \/ \E in \in PartInputs, ok \in BOOLEAN : PartUrl(in[1], in[2], ok)
  \/ \E id \in Known, pn \in PartNumbers, d \in Payloads : S3PutPart(id, pn, d)
  \/ \E in \in ChunkInputs : Chunk(in[1], in[2], in[3])
  \/ \E in \in CompleteInputs : Complete(in[1], in[2], in[3])
  \/ \E k \in Slots, ok \in BOOLEAN : CompleteDrain(k, ok)
  \/ \E k \in Slots, ok \in BOOLEAN : CompleteFinish(k, ok)
  \/ \E k \in Slots, out \in {"ok", "s3", "sign"} : CompleteS3Done(k, out)
  \/ \E k \in Slots, ok \in BOOLEAN : CompleteSave(k, ok)
  \/ \E id \in AbortInputs : Abort(id)
  \/ \E k \in Slots, ok \in BOOLEAN : AbortBackendDone(k, ok)
  \/ \E id \in AbortInputs, found \in BOOLEAN, signed \in BOOLEAN :
       DownloadUrl(id, found, signed)
  \/ \E id \in Known, found \in BOOLEAN : DownloadFile(id, found)

Spec == Init /\ [][Next]_vars

\* The same server with a client that does not wait for the answer to a
\* pending request before it asks for a completion or an abort.
InitRace ==
  InitWith({"complete", "abort"}, 1, FileSizes, PartNumbers, {Plain})
SpecRace == InitRace /\ [][Next]_vars

\* The same server with a client that sends chunks while a completion is
\* pending.
InitChunk == InitWith({"chunk"}, 1, FileSizes, PartNumbers, {Plain})
SpecChunk == InitChunk /\ [][Next]_vars

\* The same server with a client that also sends "-1" as the partNumber of a
\* chunk.
InitKeys == InitWith({}, 1, FileSizes, PartKeys, {Plain})
SpecKeys == InitKeys /\ [][Next]_vars

\* The same server with two uploads of five units each, sent as part 1,
\* by clients of which one names its file `../x`.
InitNames == InitWith({}, 2, {5}, {1}, {Plain, Traversal})
SpecNames == InitNames /\ [][Next]_vars

\* The same server with two uploads of five units each, requests made one
\* at a time.
InitPair == InitWith({}, 2, {5}, PartNumbers, {Plain})
SpecPair == InitPair /\ [][Next]_vars

\* The server under the scheduling the runtime gives it: what the handlers
\* await of the local machine is answered, by success or by failure: mkdir
\* and rmdir settle, a write stream emits 'drain', 'finish' or 'error', and
\* the database calls its callback.  The calls to S3 go over the network
\* without a timeout of the client's or the handler's; nothing makes them
\* settle.
LocalAnswer(k) ==
  \E ok \in BOOLEAN :
    \/ STORAGE_TYPE = "local" /\ StartBackendDone(k, ok)
    \/ CompleteDrain(k, ok)
    \/ CompleteFinish(k, ok)
    \/ CompleteSave(k, ok)
    \/ STORAGE_TYPE = "local" /\ AbortBackendDone(k, ok)

Fairness == \A k \in Slots : WF_vars(LocalAnswer(k))
SpecLive == Init /\ [][Next]_vars /\ Fairness

\* ======================================================= the browser client
\* public/upload.js.  startUpload is an async function: a call runs until
\* its next await on a fetch, and the step after the answer runs until the
\* following one.  The API is seen from the page: a request is answered
\* with success only when the server could do so (the session is open, the
\* declared size is positive and below the ceiling); any request may fail.
backend == <<config, uuid, server, inflight, resp, abortedOK>>

IsOpen(id) == id \in Runs /\ service[id] = "open"

\* fileInput 'change': the file is stored and the upload button enabled,
\* whether or not an upload is running.
handleFileSelect(f) ==
  /\ currentUpload' = [currentUpload EXCEPT !.file = f]
  /\ uploadBtn' = TRUE
  /\ UNCHANGED <<runs, aborted, cancelBtn, service, backend, process>>

\* The end of startUpload, on either path.
Finish(k) ==
  /\ runs' = [runs EXCEPT ![k].pc = "done"]
  /\ uploadBtn' = TRUE
  /\ cancelBtn' = FALSE

\* catch (error): abortUpload() for an AbortError or 'Upload cancelled',
\* which sends /abort when currentUpload.uploadId is set; any other error
\* is logged.
Throw(k, cu, cancelled) ==
  IF cancelled /\ cu.uploadId # 0
  THEN /\ runs' = [runs EXCEPT ![k].pc = "abort",
                               ![k].sent = Sent("abort", cu.uploadId, 0, <<>>)]
       /\ UNCHANGED <<uploadBtn, cancelBtn>>
  ELSE Finish(k)

\* The top of the for loop with index i, and the statement after the loop.
\* The bound, the controller, the uploadId and the parts are read from
\* currentUpload (cu), the part number from i.
Loop(k, i, cu) ==
  IF i < cu.totalChunks
  THEN IF cu.abortController \in aborted
       THEN Throw(k, cu, TRUE)
       ELSE /\ runs' = [runs EXCEPT ![k] =
                 [@ EXCEPT !.i = i,
                           !.pc = IF cu.storageType = "cloud" THEN "part" ELSE "chunk",
                           !.signal = IF cu.storageType = "cloud"
                                      THEN 0 ELSE cu.abortController,
                           !.sent = Sent(IF cu.storageType = "cloud"
                                         THEN "part" ELSE "chunk",
                                         cu.uploadId, i + 1, <<>>)]]
            /\ UNCHANGED <<uploadBtn, cancelBtn>>
  ELSE /\ runs' = [runs EXCEPT ![k] =
            [@ EXCEPT !.i = i, !.pc = "complete", !.signal = 0,
                      !.sent = Sent("complete", cu.uploadId, 0, cu.parts)]]
       /\ UNCHANGED <<uploadBtn, cancelBtn>>

\* uploadBtn 'click': startUpload up to the fetch of /start.
startUpload(k) ==
  /\ uploadBtn
  /\ currentUpload.file # NoSelection
  /\ runs[k].pc = "none"
  /\ \A j \in Runs : j < k => runs[j].pc # "none"
  /\ currentUpload' = [currentUpload EXCEPT
                         !.abortController = k,
                         !.totalChunks = Ceil(currentUpload.file, CHUNK_SIZE),
                         !.uploadedChunks = 0,
                         !.parts = <<>>]
  /\ uploadBtn' = FALSE
  /\ cancelBtn' = TRUE
  /\ runs' = [runs EXCEPT ![k] =
        [NoRun EXCEPT !.pc = "start", !.file = currentUpload.file,
                      !.sent = Sent("start", 0, 0, <<>>)]]
  /\ UNCHANGED <<aborted, service, backend, process>>

\* /start was answered: the session's id and the storage type are stored
\* and the loop begins.
StartAnswered(k, ok) ==
  /\ runs[k].pc = "start"
  /\ ok => runs[k].file > 0 /\ ~ExceedsLimit(runs[k].file)
  /\ UNCHANGED <<aborted, backend, process>>
  /\ IF ok
     THEN LET cu == [currentUpload EXCEPT !.uploadId = k,
                                          !.storageType = STORAGE_TYPE]
          IN /\ currentUpload' = cu
             /\ service' = [service EXCEPT ![k] = "open"]
             /\ Loop(k, 0, cu)
     ELSE /\ Throw(k, currentUpload, FALSE)
          /\ UNCHANGED <<currentUpload, service>>

\* /part was answered: the chunk is PUT to the presigned URL, with the
\* signal of the controller currentUpload holds now.
PartAnswered(k, ok) ==
  /\ runs[k].pc = "part"
  /\ ok => IsOpen(runs[k].sent.uploadId)
  /\ UNCHANGED <<currentUpload, aborted, service, backend, process>>
  /\ IF ok
     THEN /\ runs' = [runs EXCEPT ![k].pc = "put",
                                  ![k].signal = currentUpload.abortController,
                                  ![k].sent = [@ EXCEPT !.op = "put"]]
          /\ UNCHANGED <<uploadBtn, cancelBtn>>
     ELSE Throw(k, currentUpload, FALSE)

\* The answers a fetch carrying a signal can have: AbortError when, and
\* only when, the signal was aborted before the answer.
Outcomes(k, others) ==
  IF runs[k].signal \in aborted THEN {"AbortError"} ELSE others

\* S3 answered the PUT: the part and its ETag are pushed, uploadedChunks
\* counted and the loop continues.
PutAnswered(k, out) ==
  /\ runs[k].pc = "put"
  /\ out \in Outcomes(k, {"ok", "fail", "noetag"})
  /\ out = "ok" => IsOpen(runs[k].sent.uploadId)
  /\ UNCHANGED <<aborted, service, backend, process>>
  /\ IF out = "ok"
     THEN LET n  == runs[k].i + 1
              cu == [currentUpload EXCEPT
                       !.parts = Append(@, Part(n, Unquote(Header(ETagOf(n))))),
                       !.uploadedChunks = @ + 1]
          IN /\ currentUpload' = cu
             /\ Loop(k, runs[k].i + 1, cu)
     ELSE /\ Throw(k, currentUpload, out = "AbortError")
          /\ UNCHANGED currentUpload

\* /chunk was answered: the part is pushed, uploadedChunks counted and the
\* loop continues.
ChunkAnswered(k, out) ==
  /\ runs[k].pc = "chunk"
  /\ out \in Outcomes(k, {"ok", "fail"})
  /\ out = "ok" => IsOpen(runs[k].sent.uploadId)
  /\ UNCHANGED <<aborted, service, backend, process>>
  /\ IF out = "ok"
     THEN LET n  == runs[k].i + 1
              cu == [currentUpload EXCEPT !.parts = Append(@, Part(n, 0)),
                                          !.uploadedChunks = @ + 1]
          IN /\ currentUpload' = cu
             /\ Loop(k, runs[k].i + 1, cu)
     ELSE /\ Throw(k, currentUpload, out = "AbortError")
          /\ UNCHANGED currentUpload

\* /complete was answered.
CompleteAnswered(k, ok) ==
  /\ runs[k].pc = "complete"
  /\ ok => IsOpen(runs[k].sent.uploadId)
  /\ service' = IF ok THEN [service EXCEPT ![runs[k].sent.uploadId] = "completed"]
                ELSE service
  /\ Finish(k)
  /\ UNCHANGED <<currentUpload, aborted, backend, process>>

\* /abort was answered, or failed: abortUpload returns either way.
AbortAnswered(k) ==
  /\ runs[k].pc = "abort"
  /\ service' = IF IsOpen(runs[k].sent.uploadId)
                THEN [service EXCEPT ![runs[k].sent.uploadId] = "aborted"]
                ELSE service
  /\ Finish(k)
  /\ UNCHANGED <<currentUpload, aborted, backend, process>>

\* cancelBtn 'click'.
cancelUpload ==
  /\ cancelBtn
  /\ currentUpload.abortController # 0
  /\ currentUpload.abortController \notin aborted
  /\ aborted' = aborted \cup {currentUpload.abortController}
  /\ UNCHANGED <<currentUpload, runs, uploadBtn, cancelBtn, service, backend, process>>

NextClient ==
  \/ \E f \in ClientFiles : handleFileSelect(f)
  \/ \E k \in Runs : startUpload(k)
  \/ \E k \in Runs, ok \in BOOLEAN : StartAnswered(k, ok)
  \/ \E k \in Runs, ok \in BOOLEAN : PartAnswered(k, ok)
  \/ \E k \in Runs, out \in {"ok", "fail", "noetag", "AbortError"} : PutAnswered(k, out)
  \/ \E k \in Runs, out \in {"ok", "fail", "AbortError"} : ChunkAnswered(k, out)
  \/ \E k \in Runs, ok \in BOOLEAN : CompleteAnswered(k, ok)
  \/ \E k \in Runs : AbortAnswered(k)
  \/ cancelUpload

SpecClient == Init /\ [][NextClient]_vars

\* ======================================================== the server start
\* server.js: initDatabase().then(() => app.listen(PORT)).catch(exit).
\* initDatabase opens the database, runs CREATE TABLE IF NOT EXISTS in the
\* callback of the open and resolves in the callback of the statement; it
\* rejects on either error.
Loading ==
  /\ db = "opening"
  /\ listening = FALSE
  /\ exitCode = NoExit

\* A start that calls app.listen whatever initDatabase came to.
CreateTableAnyway(out) ==
  /\ db = "creating"
  /\ db' = IF out = "error" THEN "failed" ELSE "ready"
  /\ listening' = (out # "bind")
  /\ exitCode' = IF out = "bind" THEN 1 ELSE NoExit
  /\ UNCHANGED <<backend, browser>>

\* The callback of new sqlite3.Database: an error rejects, and the catch
\* exits with status 1; otherwise the CREATE TABLE statement is run.
OpenDatabase(ok) ==
  /\ db = "opening"
  /\ db' = IF ok THEN "creating" ELSE "failed"
  /\ exitCode' = IF ok THEN NoExit ELSE 1
  /\ UNCHANGED <<listening, backend, browser>>

\* The callback of db.run(CREATE TABLE): an error rejects and the process
\* exits with status 1; otherwise the promise resolves and app.listen is
\* called, which binds the port or fails with an 'error' event nothing
\* listens for (bind).
CreateTable(out) ==
  /\ db = "creating"
  /\ db' = IF out = "error" THEN "failed" ELSE "ready"
  /\ listening' = (out = "ok")
  /\ exitCode' = IF out = "ok" THEN NoExit ELSE 1
  /\ UNCHANGED <<backend, browser>>

\* Requests reach the router while the server listens.
Serve == listening /\ Next

InitBoot ==
  /\ InitServer({}, 1, FileSizes, PartNumbers, {Plain})
  /\ Loading
  /\ InitBrowser

NextBoot ==
  \/ \E ok \in BOOLEAN : OpenDatabase(ok)
  \/ \E out \in {"ok", "error", "bind"} : CreateTable(out)
  \/ Serve

SpecBoot == InitBoot /\ [][NextBoot]_vars

\* ============================================================= properties
\* The part numbers a manifest names, and the part numbers of a part map.
ManifestParts(ps) == {ps[i].partNumber : i \in 1..Len(ps)}
NoDuplicates(ps)  == Cardinality(ManifestParts(ps)) = Len(ps)
Stored(chunks)    == {n \in PartNumbers : chunks[n] # 0}
Occurrences(ps, n) == Cardinality({i \in 1..Len(ps) : ps[i].partNumber = n})

\* The payloads of the parts in S, each once, by ascending part number.
RECURSIVE AscendingFrom(_, _, _)
AscendingFrom(chunks, S, n) ==
  IF n > MaxPart THEN <<>>
  ELSE (IF n \in S THEN Bytes(chunks[n]) ELSE <<>>) \o AscendingFrom(chunks, S, n + 1)

Ascending(chunks, S) == AscendingFrom(chunks, S, 1)

\* The payload of every part as often as the manifest names it, by
\* ascending part number.
RECURSIVE Times(_, _)
Times(b, k) == IF k = 0 THEN <<>> ELSE b \o Times(b, k - 1)

RECURSIVE AsNamedFrom(_, _, _)
AsNamedFrom(chunks, ps, n) ==
  IF n > MaxPart THEN <<>>
  ELSE Times(Bytes(chunks[n]), Occurrences(ps, n)) \o AsNamedFrom(chunks, ps, n + 1)

CompletedLocal(r) ==
  STORAGE_TYPE = "local" /\ r.op = "complete" /\ r.status = 200

\* C1: on the local backend a completion whose manifest names every stored
\* part number exactly once, in any order, leaves a destination file equal
\* to the stored payloads concatenated by ascending part number.
C1_AscendingAssembly ==
  (/\ CompletedLocal(resp)
   /\ NoDuplicates(resp.req.parts)
   /\ ManifestParts(resp.req.parts) = Stored(resp.seen))
  => disk[resp.uploadId] = Final(Ascending(resp.seen, Stored(resp.seen)))

\* Parts 2 = "lo" and 1 = "hel", manifest sent as [2, 1]: the file is "hello".
C1_Witness ==
  /\ CompletedLocal(resp)
  /\ resp.req.parts = <<Part(2, 0), Part(1, 0)>>
  /\ resp.seen = [n \in PartKeys |-> IF n = 1 THEN 1 ELSE IF n = 2 THEN 2 ELSE 0]
  /\ disk[resp.uploadId].content = <<"h", "e", "l", "l", "o">>

\* C2: an acknowledged chunk replaces whatever the buffer held for its part
\* number and nothing else, and the assembled file is made of the payloads
\* the buffer holds at completion (the last ones submitted) and no others.
C2_LastWriteWins ==
  /\ (resp.op = "chunk" /\ resp.status = 200)
       => tempChunks[resp.uploadId] =
            [resp.seen EXCEPT ![resp.req.partNumber] = resp.req.data]
  /\ CompletedLocal(resp)
       => disk[resp.uploadId] = Final(AsNamedFrom(resp.seen, resp.req.parts, 1))

\* A part was sent again with other bytes.
C2_Witness ==
  /\ resp.op = "chunk" /\ resp.status = 200
  /\ resp.seen[resp.req.partNumber] \notin {0, resp.req.data}
  /\ tempChunks[resp.uploadId][resp.req.partNumber] = resp.req.data

\* C3: a completion whose manifest names a part the buffer does not hold
\* fails naming such a part, writes no files row and leaves the session and
\* its chunks in both registries; a completion that finds the remains of
\* such a failed attempt and all its parts stored succeeds with the stored
\* payloads in ascending order.
C3_Step ==
  LET r == resp'
      id == r.uploadId
      named == ManifestParts(r.req.parts)
      missing == {n \in named : r.seen[n] = 0}
  IN
  /\ (/\ STORAGE_TYPE = "local" /\ r.op = "complete"
      /\ r.status \notin {400, 404} /\ r.message # "Upload session not found"
      /\ missing # {})
       => /\ r.status = 500 /\ r.message = "Chunk not found"
          /\ r.part \in missing
          /\ UNCHANGED <<files, routeMultipartUploads, multipartUploads, tempChunks>>
          /\ MapHas(routeMultipartUploads, id) /\ MapHas(multipartUploads, id)
          /\ tempChunks[id] = r.seen
  /\ (r.op = "complete" /\ r.message = "Chunk not found") => missing # {}
  /\ (CompletedLocal(r) /\ r.retry /\ NoDuplicates(r.req.parts))
       => /\ files'[id].present
          /\ disk'[id] = Final(Ascending(r.seen, named))

C4_EmptyManifestFails ==
  (/\ resp.op = "complete" /\ resp.req.array /\ resp.req.parts = <<>>
   /\ resp.status \notin {400, 404})
  => /\ resp.status # 200
     /\ ~files[resp.uploadId].present
     /\ MapHas(routeMultipartUploads, resp.uploadId)

\* C5: a part the manifest names more than once is written once to the
\* local destination and forwarded once to the backend's completion call.
C5_DuplicatesCollapsed ==
  /\ CompletedLocal(resp)
       => disk[resp.uploadId] =
            Final(Ascending(resp.seen, ManifestParts(resp.req.parts)))
  /\ \A k \in Slots : inflight[k].pc = "s3_complete" => NoDuplicates(inflight[k].rest)

\* C6: a start whose size exceeds the ceiling is answered 400 in the step it
\* arrives, without a backend call or a change of any registry or store; no
\* session of such a size is ever registered; a size equal to the ceiling is
\* never rejected for its size.
C6_Step ==
  LET r == resp' IN
  /\ (r.op = "start" /\ r.req.fileSize > maxFileSize)
       => /\ r.status = 400
          /\ UNCHANGED <<server, uuid, inflight>>
  /\ \A k \in Slots : inflight'[k].pc = "start_backend"
                        => inflight'[k].req.fileSize <= maxFileSize
  /\ \A id \in Ids :
       /\ MapHas(routeMultipartUploads', id)
            => routeMultipartUploads'[id].fileSize <= maxFileSize
       /\ MapHas(multipartUploads', id)
            => multipartUploads'[id].fileSize <= maxFileSize
  /\ (r.op = "start" /\ r.req.fileSize = maxFileSize /\ r.status = 400)
       => r.error = "fileName and fileSize are required"

C7_NonPositiveRejected ==
  /\ (resp.op = "start" /\ resp.req.fileSize <= 0) => resp.status = 400
  /\ \A id \in Ids :
       /\ MapHas(routeMultipartUploads, id) => routeMultipartUploads[id].fileSize > 0
       /\ MapHas(multipartUploads, id) => multipartUploads[id].fileSize > 0

\* C8: a start changes no registry before the backend answered; answered
\* with an error it leaves both registries as they were; answered 200 it
\* adds to each registry the one entry of the returned uploadId.
C8_Step ==
  LET r == resp'
      id == r.uploadId
  IN
  /\ (r.op = "start" /\ r.status # 200) => UNCHANGED registries
  /\ (\E k \in Slots : inflight[k].pc = "idle" /\ inflight'[k].pc = "start_backend")
       => UNCHANGED registries
  /\ (r.op = "start" /\ r.status = 200)
       => /\ ~MapHas(routeMultipartUploads, id) /\ ~MapHas(multipartUploads, id)
          /\ MapHas(routeMultipartUploads', id) /\ MapHas(multipartUploads', id)
          /\ routeMultipartUploads'[id].fileId = multipartUploads'[id].fileId
          /\ \A j \in Ids \ {id} :
               /\ routeMultipartUploads'[j] = routeMultipartUploads[j]
               /\ multipartUploads'[j] = multipartUploads[j]

C8_AtomicCreate == [][C8_Step]_vars

\* The backend allocation failed and no registry holds the session.
C8_Witness ==
  /\ resp.op = "start" /\ resp.status = 500 /\ resp.message = "backend"
  /\ ~MapHas(routeMultipartUploads, resp.uploadId)
  /\ ~MapHas(multipartUploads, resp.uploadId)

\* C9: a request for a part URL, a chunk, a completion or an abort that
\* names a session the route registry does not hold is answered in the step
\* it arrives, with 404 when its fields are given and its shape is the
\* backend's and else with 400, and changes nothing; no handler is ever
\* suspended for such a session; an entry is held under an uploadId that was
\* generated, names that session, and the two registries hold the same one.
WellFormed(q) ==
  CASE q.op = "part" -> q.partNumber # Missing
    [] q.op = "chunk" -> /\ q.partNumber # Missing /\ q.data # Missing
                         /\ STORAGE_TYPE = "local"
    [] q.op = "complete" -> q.array
    [] OTHER -> TRUE

C9_Step ==
  LET r == resp'
      unknown == /\ r.op \in {"part", "chunk", "complete", "abort"}
                 /\ r.uploadId \in Ids
                 /\ ~MapHas(routeMultipartUploads, r.uploadId)
                 /\ inflight' = inflight
  IN
  /\ unknown => /\ r.status \in {400, 404}
                /\ WellFormed(r.req) => r.status = 404
                /\ UNCHANGED server
  /\ \A k \in Slots :
       (inflight[k].pc = "idle" /\ inflight'[k].pc \notin {"idle", "start_backend"})
         => /\ MapHas(routeMultipartUploads, inflight'[k].uploadId)
            /\ MapHas(multipartUploads, inflight'[k].uploadId)
  /\ \A id \in Ids :
       /\ MapHas(routeMultipartUploads', id)
            => id <= uuid' /\ routeMultipartUploads'[id].fileId = id
       /\ MapHas(multipartUploads', id)
            => multipartUploads'[id] = routeMultipartUploads'[id]
       /\ ~MapHas(multipartUploads', id) /\ STORAGE_TYPE = "local" /\ AllIdle'
            => tempChunks'[id] = NoChunks

C9_UnknownSession == [][C9_Step]_vars

\* A completion is asked for a session that a completion evicted before.
C9_Witness ==
  /\ resp.op = "complete" /\ resp.status = 404
  /\ files[resp.uploadId].present

\* C10: an abort answered 200 has evicted the session from both registries
\* and emptied its chunk buffer; an abort of a session whose abort was
\* answered 200 before is answered 404 and changes nothing.
C10_Step ==
  LET r == resp'
      id == r.uploadId
  IN
  /\ (r.op = "abort" /\ r.status = 200)
       => /\ ~MapHas(routeMultipartUploads', id) /\ ~MapHas(multipartUploads', id)
          /\ tempChunks'[id] = NoChunks
          /\ id \in abortedOK'
  /\ (r.op = "abort" /\ id \in abortedOK)
       => /\ r.status = 404
          /\ UNCHANGED <<server, uuid, inflight, abortedOK>>

C10_AbortTwice == [][C10_Step]_vars

\* The second abort of a session.
C10_Witness ==
  /\ resp.op = "abort" /\ resp.status = 404
  /\ resp.uploadId \in abortedOK

\* C11: an abort of a session that both registries hold is answered 200 and
\* evicts the session from both, whatever the backend's discard reports.
C11_AbortTolerant ==
  (/\ resp.op = "abort" /\ resp.status \notin {400, 404}
   /\ resp.message # "Upload session not found")
  => /\ resp.status = 200
     /\ ~MapHas(routeMultipartUploads, resp.uploadId)
     /\ ~MapHas(multipartUploads, resp.uploadId)

\* C12: once an abort of a session was answered 200, no registry holds the
\* session again, no chunk is stored for it, every request for it that
\* arrives is refused on arrival with 404 (400 when malformed), and no
\* files row is written for it.
C12_Step ==
  \A id \in abortedOK :
    /\ ~MapHas(routeMultipartUploads', id) /\ ~MapHas(multipartUploads', id)
    /\ tempChunks'[id] = NoChunks
    /\ \A k \in Slots : (inflight[k].pc = "idle" /\ inflight'[k].pc # "idle")
                           => inflight'[k].uploadId # id
    /\ (/\ resp'.op \in {"part", "chunk", "complete", "abort"}
        /\ resp'.uploadId = id /\ inflight' = inflight)
         => resp'.status \in {400, 404}
    /\ files'[id].present => files[id].present

C12_NoRevival == [][C12_Step]_vars

\* C13: no session is both aborted with success and recorded in the files
\* table, and the stored file of a files row is not removed.
C13_OneTerminalState ==
  \A id \in Ids :
    /\ ~(id \in abortedOK /\ files[id].present)
    /\ (files[id].present /\ STORAGE_TYPE = "local") => disk[id].dir

\* C14: when no request is pending, a session the storage adapter's
\* registry has lost has a files row or was aborted with success.
C14_EvictedHasRecord ==
  AllIdle =>
    \A id \in Ids :
      (MapHas(routeMultipartUploads, id) /\ ~MapHas(multipartUploads, id))
        => (files[id].present \/ id \in abortedOK)

\* C15: when the backend's finalize step of a completion fails, both
\* registries keep the session and its parts are as the completion found
\* them; this holds for a completion the backend rejects and for a local
\* assembly that ends without reaching the metadata write.
C15_Step ==
  LET r == resp'
      id == r.uploadId
  IN
  /\ (r.op = "complete" /\ r.message = "backend")
       => /\ MapHas(routeMultipartUploads', id) /\ MapHas(multipartUploads', id)
          /\ STORAGE_TYPE = "local" => tempChunks'[id] = r.seen
          /\ STORAGE_TYPE = "cloud" => (s3Uploads'[id] = s3Uploads[id]
                                         /\ s3Uploads[id].open)
  /\ \A k \in Slots :
       (inflight[k].pc \in {"drain", "finish"} /\ inflight'[k].pc = "idle")
         => /\ MapHas(routeMultipartUploads', inflight[k].uploadId)
            /\ MapHas(multipartUploads', inflight[k].uploadId)
            /\ tempChunks'[inflight[k].uploadId] = inflight[k].seen

C15_FinalizeFailureKeepsSession == [][C15_Step]_vars

\* C16: a files row is written only in the step that answers a completion
\* of its session with 200, every completion answered 200 writes the row
\* of its session, which did not exist before, and a row once written is
\* never changed or removed.
C16_Step ==
  \A id \in Ids :
    /\ files[id].present => files'[id] = files[id]
    /\ (~files[id].present /\ files'[id].present)
         => (resp'.op = "complete" /\ resp'.status = 200 /\ resp'.uploadId = id)
    /\ (resp'.op = "complete" /\ resp'.status = 200 /\ resp'.uploadId = id)
         => (~files[id].present /\ files'[id].present)

C16_RecordWrittenOnce == [][C16_Step]_vars

\* The INSERT of a second completion of a session was refused.
C16_Witness ==
  /\ resp.op = "complete" /\ resp.status = 500 /\ resp.message = "database"
  /\ files[resp.uploadId].present

\* C17: the fileSize of a files row is the number of bytes of the stored
\* file (for a session of positive declared size and a file of at least
\* one byte).
C17_ActualSize ==
  \A id \in Ids :
    (/\ files[id].present /\ STORAGE_TYPE = "local" /\ disk[id].file = "final"
     /\ files[id].fileSize > 0 /\ disk[id].content # <<>>)
      => files[id].fileSize = Len(disk[id].content)

\* C18: the direct download declares a Content-Length equal to the number
\* of bytes of the stored file, which are the bytes it streams (for a
\* session of positive declared size and a file of at least one byte).
C18_ContentLength ==
  (resp.op = "file" /\ resp.status = 200 /\ resp.length > 0 /\ resp.body # <<>>)
    => /\ resp.body = disk[resp.uploadId].content
       /\ resp.length = Len(resp.body)

\* C19: the completion that writes the files row leaves as stored file the
\* payloads of the parts 1..N in ascending order (local) or the object of
\* the parts' ETags in ascending order (cloud); the stored file of a files
\* row never changes; a download answered 200 changes nothing, the direct
\* download streams the bytes of the stored file, with their number as
\* Content-Length when that is the size the session declared, and the info
\* endpoint names the stored object.
C19_Step ==
  LET r == resp'
      id == r.uploadId
      named == ManifestParts(r.req.parts)
  IN
  /\ (/\ CompletedLocal(r) /\ NoDuplicates(r.req.parts)
      /\ named = Stored(r.seen) /\ named = 1..Len(r.req.parts))
       => /\ files'[id].present
          /\ disk'[id] = Final(Ascending(r.seen, named))
  /\ (r.op = "complete" /\ r.status = 200 /\ STORAGE_TYPE = "cloud")
       => /\ files'[id].present /\ s3Objects'[id].present
          /\ s3Objects'[id].parts =
               [i \in 1..Len(r.req.parts) |-> SortParts(r.req.parts)[i].etag]
          /\ \A i \in 1..Len(r.req.parts) : s3Objects'[id].parts[i] \in Payloads
  /\ \A f \in Ids :
       files[f].present => (disk'[f] = disk[f] /\ s3Objects'[f] = s3Objects[f])
  /\ (r.op \in {"url", "file"} /\ r.status = 200)
       => /\ UNCHANGED <<server, uuid, inflight>>
          /\ files[id].present
  /\ (r.op = "file" /\ r.status = 200)
       => /\ disk[id].file = "final"
          /\ r.body = disk[id].content
          /\ files[id].fileSize = Len(disk[id].content) => r.length = Len(r.body)
  /\ (r.op = "url" /\ r.status = 200 /\ STORAGE_TYPE = "cloud")
       => (s3Objects[id].present /\ r.url.signed)

C19_DownloadRoundTrip == [][C19_Step]_vars

\* A file sent as parts 1 and 2 and declared with its size is downloaded.
C19_Witness ==
  /\ resp.op = "file" /\ resp.status = 200
  /\ resp.body = <<"h", "e", "l", "l", "o">>
  /\ resp.length = 5

\* C20: a download request for an id without a files row changes nothing,
\* is never answered 200 and never signs a URL, and is answered 404 unless
\* the database lookup failed or the direct download is asked of the cloud
\* backend.
C20_Step ==
  LET r == resp'
      id == r.uploadId
  IN
  (r.op \in {"url", "file"} /\ id \in Ids /\ ~files[id].present)
    => /\ UNCHANGED <<server, uuid, inflight>>
       /\ r.status # 200
       /\ ~r.url.signed /\ r.message # "backend"
       /\ (r.message # "database" /\ ~(r.op = "file" /\ STORAGE_TYPE = "cloud"))
            => r.status = 404

C20_NoRecordNotFound == [][C20_Step]_vars

\* The direct download of a session still in progress is refused.
C20_Witness ==
  /\ resp.op = "file" /\ resp.status = 404
  /\ MapHas(routeMultipartUploads, resp.uploadId)
  /\ tempChunks[resp.uploadId] # NoChunks

\* The stored object of a files row is gone: the directory was removed or
\* holds no file (local), or the bucket has no object for the key (cloud).
ObjectAbsent(id) ==
  IF STORAGE_TYPE = "cloud" THEN ~s3Objects[id].present
  ELSE ~disk[id].dir \/ disk[id].file = "none"

\* C21: a download request for an id whose files row exists while its stored
\* object is absent is answered 404, unless the database lookup failed or
\* the direct download is asked of the cloud backend.
C21_AbsentObjectNotFound ==
  LET id == resp.uploadId IN
  (/\ resp.op \in {"url", "file"} /\ id \in Ids
   /\ HasRow(files, id) /\ ObjectAbsent(id)
   /\ resp.message # "database"
   /\ ~(resp.op = "file" /\ STORAGE_TYPE = "cloud"))
    => resp.status = 404

\* C22: on the cloud backend every answered request for a download URL
\* carries a URL signed in that step for the key of the files row with the
\* lifetime the route asks for; it is not the URL the row stores, and the
\* step stores nothing, so no later request can be handed it.
C22_Step ==
  LET r == resp'
      id == r.uploadId
  IN
  (STORAGE_TYPE = "cloud" /\ r.op = "url" /\ r.status = 200)
    => /\ HasRow(files, id)
       /\ r.url = [signed |-> TRUE, key |-> files[id].key,
                   expiresIn |-> DownloadExpiry]
       /\ r.url # files[id].url
       /\ UNCHANGED <<server, uuid, inflight>>

C22_FreshUrl == [][C22_Step]_vars

\* A download URL is answered for a row that stores the completion's URL.
C22_Witness ==
  /\ STORAGE_TYPE = "cloud" /\ resp.op = "url" /\ resp.status = 200
  /\ files[resp.uploadId].url.signed
  /\ files[resp.uploadId].url.key = resp.url.key

\* How often entry e occurs in the part list ps.
EntryCount(ps, e) == Cardinality({i \in 1..Len(ps) : ps[i] = e})

\* C23: the part list a cloud completion sends to S3 is in ascending order
\* of part number and holds the entries of the client's manifest, each part
\* number with the ETag the client gave for it, as often as the manifest
\* names them.
C23_SortedForward ==
  \A k \in Slots :
    inflight[k].pc = "s3_complete"
      => LET sent == inflight[k].rest
             ps == inflight[k].req.parts
         IN /\ Len(sent) = Len(ps)
            /\ \A i \in 1..Len(sent) - 1 :
                 sent[i].partNumber <= sent[i + 1].partNumber
            /\ \A e \in ManifestEntries : EntryCount(sent, e) = EntryCount(ps, e)

\* A manifest sent in descending order, with two different ETags, is with S3.
C23_Witness ==
  \E k \in Slots :
    /\ inflight[k].pc = "s3_complete"
    /\ inflight[k].req.parts = <<Part(2, ETagOf(1)), Part(1, ETagOf(2))>>

\* C24: a request for a part URL changes neither registry, no received
\* part, no storage and no files row, whatever it is answered; it is
\* answered 200 only on the cloud backend for a registered session, and then
\* with a URL signed for the session's key and the part number it named.
C24_Step ==
  LET r == resp'
      id == r.uploadId
  IN
  r.op = "part"
    => /\ UNCHANGED <<server, uuid, inflight>>
       /\ r.status = 200
            => /\ STORAGE_TYPE = "cloud"
               /\ MapHas(routeMultipartUploads, id) /\ MapHas(multipartUploads, id)
               /\ r.part = r.req.partNumber /\ r.part \in PartNumbers
               /\ r.url.signed /\ r.url.key = Key(multipartUploads[id])

C24_PartUrlRecordsNothing == [][C24_Step]_vars

\* A URL is issued for part 2 of an upload that has received part 1 only.
C24_Witness ==
  /\ resp.op = "part" /\ resp.status = 200 /\ resp.part = 2
  /\ s3Uploads[resp.uploadId].parts[1] # 0
  /\ s3Uploads[resp.uploadId].parts[2] = 0

\* A completion of session id is in progress: a handler of /complete for
\* it is suspended at one of its awaits.
Completing(id) ==
  \E k \in Slots : /\ inflight[k].req.op = "complete"
                   /\ inflight[k].uploadId = id
                   /\ inflight[k].pc # "idle"

\* C25: a chunk sent for a session whose completion is in progress is not
\* answered 200 and is not stored.
C25_Step ==
  LET r == resp' IN
  (r.op = "chunk" /\ r.uploadId \in Ids /\ Completing(r.uploadId))
    => r.status # 200 /\ UNCHANGED tempChunks

C25_CompletingRefusesChunks == [][C25_Step]_vars

\* C26: whatever chunks arrive while a local completion assembles, the file
\* of a completion that named every part of the part map once is the
\* ascending concatenation of the part map as the completion found it.
C26_ExclusiveAssembly ==
  (/\ CompletedLocal(resp)
   /\ NoDuplicates(resp.req.parts)
   /\ ManifestParts(resp.req.parts) = Stored(resp.seen))
  => disk[resp.uploadId].content = Ascending(resp.seen, Stored(resp.seen))

\* C27: a request answered 400 or 404 leaves both registries, every chunk
\* buffer, the disk, S3, the files table, the id generator and every pending
\* handler as they were.
C27_Step ==
  resp'.status \in {400, 404} => UNCHANGED <<server, uuid, inflight>>

C27_RejectedChangesNothing == [][C27_Step]_vars

\* A chunk request without data is refused for a session that holds chunks.
C27_Witness ==
  /\ resp.op = "chunk" /\ resp.status = 400 /\ resp.req.data = Missing
  /\ resp.uploadId \in Ids
  /\ MapHas(routeMultipartUploads, resp.uploadId)
  /\ tempChunks[resp.uploadId] # NoChunks

\* The sessions and uploads whose registry entries, chunks, destination,
\* S3 upload, stored object or files row a step changes.
Touched ==
  {i \in Ids : \/ routeMultipartUploads'[i] # routeMultipartUploads[i]
               \/ multipartUploads'[i] # multipartUploads[i]
               \/ tempChunks'[i] # tempChunks[i]
               \/ disk'[i] # disk[i]
               \/ s3Uploads'[i] # s3Uploads[i]
               \/ s3Objects'[i] # s3Objects[i]
               \/ files'[i] # files[i]}

\* C28: no step of a handler changes the registry entries, the chunks, the
\* destination, the stored file or the files row of more than one session.
C28_Step == Cardinality(Touched) <= 1

C28_SessionsIsolated == [][C28_Step]_vars

\* What a response tells of the kind of a failure: its status and its
\* error; message is the text of whatever was thrown.
Reason(r) == <<r.status, r.error>>

\* The catch of router.post('/complete'): what it reports of every error
\* thrown in the handler.
CompleteCatch == <<500, "Failed to complete upload">>

\* C29: a completion that failed because the backend, the signer or the
\* database failed is reported by the handler's catch, and one that failed
\* because a part is missing is reported with another status or error.
C29_ReasonTellsKind ==
  resp.op = "complete"
    => /\ resp.message \in {"backend", "presign", "database"}
            => Reason(resp) = CompleteCatch
       /\ resp.message = "Chunk not found" => Reason(resp) # CompleteCatch

\* Handler k is suspended at a call to its storage backend.
AwaitsBackend(k) ==
  inflight[k].pc \in {"start_backend", "s3_complete", "drain", "finish",
                      "abort_backend"}

\* C30: a handler that waits for its storage backend does not wait for
\* ever: it goes on, or answers its request.
C30_NoHang == \A k \in Slots : AwaitsBackend(k) ~> ~AwaitsBackend(k)

\* C31: every key under which a session holds a chunk is a part number, a
\* positive integer, and a chunk request is acknowledged for such keys only.
C31_PositiveKeys ==
  /\ \A id \in Ids : \A n \in PartKeys : tempChunks[id][n] # 0 => n >= 1
  /\ (resp.op = "chunk" /\ resp.status = 200) => resp.part >= 1

\* C32: a request to /part that names a registered session and a part
\* number is answered 200 with that part number, and the session then holds
\* a chunk for the part.
C32_Step ==
  LET r == resp'
      id == r.uploadId
  IN
  (/\ r.op = "part" /\ id \in Ids /\ r.req.partNumber \in PartNumbers
   /\ MapHas(routeMultipartUploads, id) /\ MapHas(multipartUploads, id))
    => /\ r.status = 200 /\ r.part = r.req.partNumber
       /\ tempChunks'[id][r.req.partNumber] # 0

C32_PartStoresChunk == [][C32_Step]_vars

\* C33: a chunk is accepted on the local backend only and a part URL is
\* issued on the cloud backend only; the other request is answered with a
\* client error and changes no registry and no chunk buffer.
C33_Step ==
  LET r == resp' IN
  /\ (r.op = "chunk" /\ r.status = 200) => STORAGE_TYPE = "local"
  /\ (r.op = "part" /\ r.status = 200) => STORAGE_TYPE = "cloud"
  /\ (r.op = "chunk" /\ STORAGE_TYPE = "cloud")
       => r.status = 400 /\ UNCHANGED <<registries, tempChunks>>
  /\ (r.op = "part" /\ STORAGE_TYPE = "local")
       => r.status \in {400, 404} /\ UNCHANGED <<registries, tempChunks>>

C34_RegistriesAgree ==
  AllIdle =>
    {id \in Ids : MapHas(routeMultipartUploads, id)}
      = {id \in Ids : MapHas(multipartUploads, id)}

\* C35: an abort answered 200 on the local backend leaves the directory and
\* the stored file of every other session and completed upload as they were.
C35_Step ==
  LET r == resp' IN
  (r.op = "abort" /\ r.status = 200 /\ STORAGE_TYPE = "local")
    => \A j \in Ids \ {r.uploadId} : disk'[j] = disk[j]

C35_AbortRemovesOwnOnly == [][C35_Step]_vars

\* C36: a local completion that waits for its write stream ends its wait
\* by going on or by answering its request: no step takes the handler from
\* the wait for 'drain' or 'finish' to its end without a response to its
\* request.
C36_Step ==
  \A k \in Slots :
    (inflight[k].pc \in {"drain", "finish"} /\ inflight'[k].pc = "idle")
      => /\ resp'.op = "complete" /\ resp'.status \in {200, 500}
         /\ resp'.uploadId = inflight[k].uploadId

C36_StreamErrorAnswered == [][C36_Step]_vars

\* A call of startUpload sends a request of the given kinds in this step.
Sends(k, ops) ==
  /\ runs'[k].pc \in ops
  /\ runs'[k] # runs[k]

Uploading == {"part", "put", "chunk"}

\* C37: the page sends /complete only when every one of the
\* ceil(file size / CHUNK_SIZE) chunks of the file was acknowledged; it
\* uploads the chunks one at a time, in ascending order, numbered from 1;
\* the manifest holds each of these part numbers exactly once, on the cloud
\* backend with the ETag S3 returned for the part; and uploadedChunks never
\* exceeds totalChunks.
C37_Step ==
  /\ currentUpload'.uploadedChunks <= currentUpload'.totalChunks
  /\ \A k \in Runs :
       LET T  == Ceil(runs[k].file, CHUNK_SIZE)
           ps == runs'[k].sent.parts
       IN /\ Sends(k, {"complete"}) =>
               /\ Len(ps) = T
               /\ \A n \in 1..T : Occurrences(ps, n) = 1
               /\ \A n \in 1..Len(ps) :
                    ps[n].etag = IF STORAGE_TYPE = "cloud"
                                 THEN ETagOf(ps[n].partNumber) ELSE 0
          /\ Sends(k, {"part", "chunk"}) =>
               /\ runs'[k].sent.partNumber = Len(currentUpload'.parts) + 1
               /\ runs'[k].sent.partNumber \in 1..T
               /\ \A j \in Runs \ {k} : runs'[j].pc \notin Uploading

C37_ChunksInOrder == [][C37_Step]_vars

\* C38: when the user cancelled an upload whose session was started and
\* whose /complete was not yet sent, the page never sends /complete for it
\* and sends /abort with the uploadId of that session; and the page never
\* sends /abort for a session that was completed.
C38_Step ==
  \A k \in Runs :
    /\ (k \in aborted /\ service'[k] # "none") => ~Sends(k, {"complete"})
    /\ (k \in aborted /\ service[k] # "none" /\ runs[k].pc \in {"start"} \cup Uploading)
         => /\ runs'[k].pc # "done"
            /\ Sends(k, {"abort"}) => runs'[k].sent.uploadId = k
    /\ Sends(k, {"abort"}) => service[runs'[k].sent.uploadId] # "completed"

C38_CancelAborts == [][C38_Step]_vars

\* C39: the server listens only when the database was opened and its table
\* created; when either fails the process exits with status 1 and does not
\* listen; and no request is handled, and nothing of the server's state
\* changes, before the metadata store is initialised.
C39_Step ==
  /\ listening' => db' = "ready"
  /\ db' = "failed" => exitCode' = 1 /\ ~listening'
  /\ exitCode' # NoExit => ~listening'
  /\ (server' # server \/ inflight' # inflight \/ resp' # NoResp) => db = "ready"

C39_ListenAfterInit == [][C39_Step]_vars

C39_Witness ==
  /\ listening
  /\ db = "ready"
  /\ \E id \in Ids : files[id].present

====
